---------------------------- MODULE Spec2Model ----------------------------
(***************************************************************************)
(* A model of src/src/lib.rs: the reverse-growing arena (VecDownward), the *)
(* FlatBufferBuilder that lays out tables, vtables, strings and vectors in *)
(* it, and the reader (get_root, Table, Vector) over the same bytes.       *)
(*                                                                         *)
(* A builder is a record; every method of the source is an operator from a *)
(* builder (and its arguments) to the builder after the call.  A failed    *)
(* assert!/index check is recorded in the field "panic" and ends the use   *)
(* of that builder.  Memory is a sequence of bytes; a byte the program     *)
(* never wrote (Vec::set_len over fresh capacity) is Uninit, and a read    *)
(* that touches such a byte or leaves the allocation yields Undef.         *)
(***************************************************************************)
EXTENDS Integers, Sequences, FiniteSets, TLC

VARIABLES
    fbb,     \* the FlatBufferBuilder in use
    fresh,   \* a builder constructed at the last clear() and given the same calls
    last,    \* the last call of the client and its arguments
    nested,  \* the client is between a start_table and its end_table
    made,    \* what the client has built since the last clear(), oldest first
    adds,    \* the add_scalar calls for the table under construction
    ops      \* the number of calls made

vars == <<fbb, fresh, last, nested, made, adds, ops>>

---------------------------------------------------------------------------
(* Bounds of the exploration.                                              *)

InitialCapacity == 8
MaxOps == 3
MaxSize == 64
MaxTables == 2

---------------------------------------------------------------------------
(* Bytes, scalars and little-endian conversion.                            *)

Uninit == -1
Undef == -2

SizeOfUOffset == 4
SizeOfSOffset == 4
SizeOfVOffset == 2

Max(a, b) == IF a >= b THEN a ELSE b

RECURSIVE to_le(_, _)
(* The w bytes of the two's-complement value v, least significant first.   *)
to_le(v, w) ==
    IF w = 0 THEN <<>> ELSE <<v % 256>> \o to_le(v \div 256, w - 1)

RECURSIVE from_le(_)
(* The unsigned value of a byte sequence read least significant byte first.*)
from_le(bytes) ==
    IF bytes = <<>> THEN 0 ELSE Head(bytes) + 256 * from_le(Tail(bytes))

Defined(bytes) == \A i \in 1..Len(bytes) : bytes[i] \in 0..255

(* Bytes w of memory mem at 0-based address a; out of the allocation or    *)
(* never written: Uninit.                                                  *)
Peek(mem, a) == IF a >= 0 /\ a < Len(mem) THEN mem[a + 1] ELSE Uninit

PeekN(mem, a, w) == [i \in 1..w |-> Peek(mem, a + i - 1)]

(* read_scalar::<T> for an unsigned T of w bytes.                          *)
read_scalar(mem, a, w) ==
    LET bytes == PeekN(mem, a, w)
    IN  IF Defined(bytes) THEN from_le(bytes) ELSE Undef

(* read_scalar::<SOffset>: a signed 32-bit value.                          *)
read_soffset(mem, a) ==
    LET bytes == PeekN(mem, a, SizeOfSOffset)
    IN  IF ~Defined(bytes) THEN Undef
        ELSE IF bytes[4] >= 128
             THEN from_le(SubSeq(bytes, 1, 3)) + 16777216 * (bytes[4] - 256)
             ELSE from_le(bytes)

---------------------------------------------------------------------------
(* VecDownward: the reverse-growing arena.  The fields inner and next of   *)
(* the builder record are VecDownward's.                                   *)

VecDownward_new(initial_capacity) ==
    [inner |-> [i \in 1..initial_capacity |-> Uninit], next |-> initial_capacity]

len(b) == Len(b.inner) - b.next

data(b) == SubSeq(b.inner, b.next + 1, Len(b.inner))

(* data_at(offset): the address (index into inner) of the byte at distance *)
(* offset from the end.                                                    *)
data_at(b, offset) == Len(b.inner) - offset

VecDownward_clear(b) == [b EXCEPT !.next = Len(b.inner)]

(* make_space whose reallocation does not copy the live bytes.             *)
make_space_forgets(b, n) ==
    IF n > b.next
    THEN LET new_len  == 2 * len(b) + n
             new_next == new_len - len(b)
         IN  [b EXCEPT !.inner = [i \in 1..new_len |-> Uninit], !.next = new_next - n]
    ELSE [b EXCEPT !.next = b.next - n]

make_space(b, n) ==
    IF n > b.next
    THEN LET new_len  == 2 * len(b) + n
             new_next == new_len - len(b)
             new      == [i \in 1..new_len |->
                            IF i > new_next THEN b.inner[b.next + (i - new_next)]
                                            ELSE Uninit]
         IN  [b EXCEPT !.inner = new, !.next = new_next - n]
    ELSE [b EXCEPT !.next = b.next - n]

(* Writes dat at index off of inner (the loops of push and fill).          *)
Store(b, off, dat) ==
    [b EXCEPT !.inner = [i \in 1..Len(b.inner) |->
                           IF i > off /\ i <= off + Len(dat) THEN dat[i - off]
                                                              ELSE b.inner[i]]]

push(b, dat) ==
    LET b1 == make_space(b, Len(dat)) IN Store(b1, b1.next, dat)

fill(b, n) ==
    LET b1 == make_space(b, n) IN Store(b1, b1.next, [i \in 1..n |-> 0])

pop(b, n) == [b EXCEPT !.next = b.next + n]

---------------------------------------------------------------------------
(* Free functions of the builder.                                          *)

field_index_to_offset(field_id) == (field_id + 2) * SizeOfVOffset

RECURSIVE BitAnd(_, _)
BitAnd(a, b) ==
    IF a = 0 \/ b = 0 THEN 0
    ELSE (a % 2) * (b % 2) + 2 * BitAnd(a \div 2, b \div 2)

(* (!buf_size).wrapping_add(1) & (scalar_size - 1).  The mask is below     *)
(* 2^16 for every alignment used, so the negation is taken modulo 2^16.    *)
padding_bytes(buf_size, scalar_size) ==
    BitAnd((65536 - (buf_size % 65536)) % 65536, scalar_size - 1)

---------------------------------------------------------------------------
(* FlatBufferBuilder.  overflow_checks is the build profile: with it (a    *)
(* debug build) an integer subtraction that overflows panics, without it   *)
(* (a release build) it wraps.  Three fields are history, not program      *)
(* state: requested (the largest alignment asked of align or pre_align     *)
(* since construction or clear), start_ret (what the last start_table      *)
(* returned) and objs (what end_table and the create_ calls returned).     *)

FlatBufferBuilder_new(initial_capacity, checks) ==
    [inner           |-> VecDownward_new(initial_capacity).inner,
     next            |-> VecDownward_new(initial_capacity).next,
     offset_buf      |-> <<>>,
     vtables         |-> <<>>,
     min_align       |-> 1,
     force_defaults  |-> FALSE,
     overflow_checks |-> checks,
     panic           |-> "none",
     requested       |-> 1,
     start_ret       |-> 0,
     objs            |-> <<>>]

Ok(b) == b.panic = "none"

Panic(b, why) == IF Ok(b) THEN [b EXCEPT !.panic = why] ELSE b

clear(b) ==
    [VecDownward_clear(b) EXCEPT !.offset_buf = <<>>, !.vtables = <<>>,
                                 !.min_align = 1,
                                 !.requested = 1, !.start_ret = 0, !.objs = <<>>]

get_size(b) == len(b)

get_buffer(b) == data(b)

force_defaults(b, fd) == [b EXCEPT !.force_defaults = fd]

pad(b, num_bytes) == fill(b, num_bytes)

align(b, elem_size) ==
    LET b1 == [b EXCEPT !.min_align = IF elem_size > @ THEN elem_size ELSE @,
                        !.requested = Max(@, elem_size)]
    IN  fill(b1, padding_bytes(len(b1), elem_size))

push_bytes(b, dat) == push(b, dat)

pop_bytes(b, n) == pop(b, n)

(* push_scalar::<T> for a T of w bytes; it returns get_size() of the       *)
(* builder it yields.                                                      *)
push_scalar(b, w, elem) == push(align(b, w), to_le(elem, w))

(* refer_to without its assertion.                                         *)
refer_to_unchecked(b, off) == align(b, SizeOfUOffset)

(* refer_to: the builder after the call, and the value it returns.         *)
refer_to(b, off) ==
    LET b1 == align(b, SizeOfUOffset)
    IN  IF off <= get_size(b1) THEN b1 ELSE Panic(b1, "refer_to")

(* refer_to that forgets the size of the offset word itself.               *)
refer_to_ret_no_word(b, off) == get_size(align(b, SizeOfUOffset)) - off

refer_to_ret(b, off) ==
    get_size(align(b, SizeOfUOffset)) - off + SizeOfUOffset

push_offset(b, off) ==
    LET b1 == refer_to(b, off)
    IN  IF Ok(b1) THEN push_scalar(b1, SizeOfUOffset, refer_to_ret(b, off)) ELSE b1

track_field(b, field, off) ==
    [b EXCEPT !.offset_buf = Append(@, [off |-> off, id |-> field])]

(* add_scalar that skips every default, whatever force_defaults says.      *)
add_scalar_always_elides(b, field, w, e, def) ==
    IF e = def THEN b
    ELSE LET b1 == push(align(b, w), to_le(e, w))
         IN  [b1 EXCEPT !.offset_buf = Append(@, [off |-> len(b1), id |-> field])]

add_scalar(b, field, w, e, def) ==
    IF e = def /\ ~b.force_defaults THEN b
    ELSE LET b1 == push_scalar(b, w, e)
         IN  track_field(b1, field, get_size(b1))

add_offset(b, field, off) ==
    IF off = 0 THEN b
    ELSE LET b1 == refer_to(b, off)
         IN  IF Ok(b1)
             THEN add_scalar(b1, field, SizeOfUOffset, refer_to_ret(b, off), 0)
             ELSE b1

(* add_struct::<T> with align_of::<T>() = al and the bytes of *ptr.        *)
add_struct(b, field, al, bytes) ==
    LET b1 == push_bytes(align(b, al), bytes)
    IN  track_field(b1, field, get_size(b1))

add_struct_offset(b, field, off) == track_field(b, field, off)

not_nested(b) ==
    IF Len(b.offset_buf) = 0 THEN b ELSE Panic(b, "not_nested")

(* start_table returns get_size().                                         *)
start_table(b) == not_nested(b)

pre_align(b, n, al) ==
    fill([b EXCEPT !.requested = Max(@, al)], padding_bytes(get_size(b) + n, al))

(* create_string that leaves out the terminating NUL byte.                  *)
create_string_unterminated(b, s) ==
    LET b0 == not_nested(b)
        b1 == pre_align(b0, Len(s) + 1, SizeOfUOffset)
        b3 == push_bytes(b1, s)
    IN  IF Ok(b0) THEN push_scalar(b3, SizeOfUOffset, Len(s)) ELSE b0

create_string(b, s) ==
    LET b0 == not_nested(b)
        b1 == pre_align(b0, Len(s) + 1, SizeOfUOffset)
        b2 == fill(b1, 1)
        b3 == push_bytes(b2, s)
    IN  IF Ok(b0) THEN push_scalar(b3, SizeOfUOffset, Len(s)) ELSE b0

start_vector(b, n, elem_size) ==
    pre_align(pre_align(b, n * elem_size, SizeOfUOffset), n * elem_size, elem_size)

reserve_elements(b, n, elem_size) == make_space(b, n * elem_size)

end_vector(b, n) == push_scalar(b, SizeOfUOffset, n)

RECURSIVE PushAllFwd(_, _, _)
(* The elements pushed first to last, so that they end up reversed.        *)
PushAllFwd(b, w, v) ==
    IF v = <<>> THEN b
    ELSE PushAllFwd(push_scalar(b, w, v[1]), w, Tail(v))

RECURSIVE PushAllRev(_, _, _)
(* for &elem in v.iter().rev() { push_scalar(elem) }                       *)
PushAllRev(b, w, v) ==
    IF v = <<>> THEN b
    ELSE PushAllRev(push_scalar(b, w, v[Len(v)]), w, SubSeq(v, 1, Len(v) - 1))

(* create_vector::<T> for a T of w bytes; for T = Offset<U> the elements   *)
(* are the offsets' inner values and w = 4.                                *)
create_vector(b, w, v) ==
    LET b0 == not_nested(b)
        b1 == start_vector(b0, Len(v), w)
        b2 == PushAllRev(b1, w, v)
    IN  IF Ok(b0) THEN end_vector(b2, Len(v)) ELSE b0

RECURSIVE Flatten(_)
Flatten(v) == IF v = <<>> THEN <<>> ELSE Head(v) \o Flatten(Tail(v))

(* create_vector_of_structs::<T> with size_of::<T>() = sz, align_of = al   *)
(* and v the structs' bytes; view_slice_bytes indexes v[0].                *)
create_vector_of_structs(b, sz, al, v) ==
    LET b0 == not_nested(b)
        b1 == start_vector(b0, (Len(v) * sz) \div al, al)
        b2 == push_bytes(b1, Flatten(v))
    IN  IF ~Ok(b0) THEN b0
        ELSE IF v = <<>> THEN Panic(b1, "index")
        ELSE end_vector(b2, Len(v))

(* finish that pads for min_align without counting the root word.          *)
finish_pads_short(b, root) ==
    LET b1 == pre_align(b, 0, b.min_align)
        b2 == refer_to(b1, root)
    IN  IF Ok(b2) THEN push_scalar(b2, SizeOfUOffset, refer_to_ret(b1, root)) ELSE b2

finish(b, root) ==
    LET b1 == pre_align(b, SizeOfUOffset, b.min_align)
        b2 == refer_to(b1, root)
    IN  IF Ok(b2) THEN push_scalar(b2, SizeOfUOffset, refer_to_ret(b1, root)) ELSE b2

---------------------------------------------------------------------------
(* end_table.                                                              *)

(* (vtable_offset_loc as VOffset) - (field_loc.off as VOffset): both casts *)
(* truncate to 16 bits; the subtraction wraps in a release build.          *)
(* A slot that holds the field's distance from the end instead of its      *)
(* distance from the table.                                                *)
slot_value_position(vtable_offset_loc, off) == off % 65536

slot_value(vtable_offset_loc, off) ==
    ((vtable_offset_loc % 65536) - (off % 65536)) % 65536

slot_overflows(vtable_offset_loc, off) ==
    (vtable_offset_loc % 65536) < (off % 65536)

RECURSIVE write_slots(_, _, _)
(* The loop over offset_buf: the slot of field_loc.id is byte id of the    *)
(* live region; it must read 0 and receives the slot value.  (A slot index *)
(* at the last live byte would make the 16-bit access leave the live       *)
(* region; the index check below covers it, the model's ids being even.)   *)
write_slots(b, vtable_offset_loc, fields) ==
    IF fields = <<>> \/ ~Ok(b) THEN b
    ELSE LET field_loc == Head(fields)
             pos       == slot_value(vtable_offset_loc, field_loc.off)
             b1 == IF slot_overflows(vtable_offset_loc, field_loc.off)
                      /\ b.overflow_checks
                   THEN Panic(b, "overflow")
                   ELSE IF field_loc.id + SizeOfVOffset > get_size(b)
                   THEN Panic(b, "index")
                   ELSE IF read_scalar(b.inner, b.next + field_loc.id, SizeOfVOffset) # 0
                   THEN Panic(b, "slot_not_zero")
                   ELSE Store(b, b.next + field_loc.id, to_le(pos, SizeOfVOffset))
         IN  write_slots(b1, vtable_offset_loc, Tail(fields))

(* Lines 758-780: the table's SOffset placeholder, the vtable and its      *)
(* slots.  The table starts at get_size() after the placeholder.           *)
table_loc(b) == get_size(push_scalar(b, SizeOfSOffset, 0))

emit_vtable(b, table_start, num_fields) ==
    LET b1  == push_scalar(b, SizeOfSOffset, 0)
        vtable_offset_loc == get_size(b1)
        b2  == fill(b1, num_fields * SizeOfVOffset)
        table_object_size == vtable_offset_loc - table_start
        b3  == push_scalar(b2, SizeOfVOffset, table_object_size)
        b4  == push_scalar(b3, SizeOfVOffset, field_index_to_offset(num_fields))
        b5  == write_slots(b4, vtable_offset_loc, b4.offset_buf)
    IN  IF table_start > vtable_offset_loc
        THEN Panic(b2, IF b.overflow_checks THEN "overflow" ELSE "object_size")
        ELSE IF table_object_size >= 65536 THEN Panic(b2, "object_size")
        ELSE [b5 EXCEPT !.offset_buf = <<>>]

(* vt1 == vt2 for the two &[VOffset] slices made by from_raw_parts(vt_ptr, *)
(* *vt_ptr): each holds as many 16-bit ELEMENTS as its first word says,    *)
(* that is twice the vtable's bytes.  "eq", "ne", or "ub" when the bytes   *)
(* that would decide lie outside the allocation or were never written.     *)
(* The bytes covered by slice::from_raw_parts(vt_ptr, vt_len) for the      *)
(* vtable at address a: vt_len elements of size_of::<VOffset>() bytes,     *)
(* vt_len being the vtable's first word.                                   *)
slice_bytes(mem, a) == read_scalar(mem, a, SizeOfVOffset) * SizeOfVOffset

slices_cmp(mem, a1, a2) ==
    LET n1 == read_scalar(mem, a1, SizeOfVOffset)
        n2 == read_scalar(mem, a2, SizeOfVOffset)
        s1 == PeekN(mem, a1, slice_bytes(mem, a1))
        s2 == PeekN(mem, a2, slice_bytes(mem, a2))
    IN  IF n1 = Undef \/ n2 = Undef THEN "ub"
        ELSE IF n1 # n2 THEN "ne"
        ELSE IF \E k \in 1..Len(s1) :
                   s1[k] # Uninit /\ s2[k] # Uninit /\ s1[k] # s2[k] THEN "ne"
        ELSE IF Defined(s1) /\ Defined(s2) THEN "eq"
        ELSE "ub"

(* The pool indices whose comparison with the vtable at the front of the   *)
(* live region is undefined behaviour.                                     *)
undetermined(b) ==
    {i \in 1..Len(b.vtables) :
        slices_cmp(b.inner, b.next, data_at(b, b.vtables[i])) = "ub"}

RECURSIVE scan_vtables(_, _, _)
(* The loop over vtables: the first index that matches, 0 when none does,  *)
(* -1 when data_at(off)[0] fails its index check.  ub: the undetermined    *)
(* comparisons that come out equal.                                        *)
scan_vtables(b, i, ub) ==
    IF i > Len(b.vtables) THEN 0
    ELSE LET off == b.vtables[i]
             c   == slices_cmp(b.inner, b.next, data_at(b, off))
         IN  IF off <= 0 \/ off > Len(b.inner) THEN -1
             ELSE IF c = "eq" \/ (c = "ub" /\ i \in ub) THEN i
             ELSE scan_vtables(b, i + 1, ub)

(* The de-duping code with the SOffset stored as table minus vtable.       *)
dedup_vtable_negated(b, vtable_offset_loc, ub) ==
    LET hit    == scan_vtables(b, 1, ub)
        vt_use == IF hit > 0 THEN b.vtables[hit] ELSE get_size(b)
        b1     == IF hit > 0 THEN pop(b, get_size(b) - vtable_offset_loc) ELSE b
        b2     == IF vt_use = get_size(b1)
                  THEN [b1 EXCEPT !.vtables = Append(@, vt_use)] ELSE b1
    IN  IF hit < 0 THEN Panic(b, "index")
        ELSE Store(b2, data_at(b2, vtable_offset_loc),
                   to_le(vtable_offset_loc - vt_use, SizeOfSOffset))

(* Lines 786-818 on the builder b that emit_vtable left, for the table at  *)
(* vtable_offset_loc.                                                      *)
dedup_vtable(b, vtable_offset_loc, ub) ==
    LET hit    == scan_vtables(b, 1, ub)
        vt_use == IF hit > 0 THEN b.vtables[hit] ELSE get_size(b)
        b1     == IF hit > 0 THEN pop(b, get_size(b) - vtable_offset_loc) ELSE b
        b2     == IF vt_use = get_size(b1)
                  THEN [b1 EXCEPT !.vtables = Append(@, vt_use)] ELSE b1
    IN  IF hit < 0 THEN Panic(b, "index")
        ELSE Store(b2, data_at(b2, vtable_offset_loc),
                   to_le(vt_use - vtable_offset_loc, SizeOfSOffset))

(* end_table(start, num_fields); it returns table_loc(b).                  *)
end_table(b, table_start, num_fields, ub) ==
    LET b1 == emit_vtable(b, table_start, num_fields)
    IN  IF Ok(b1) THEN dedup_vtable(b1, table_loc(b), ub) ELSE b1

---------------------------------------------------------------------------
(* The reader.  An object is the address of its first byte in mem.         *)

NoValue == -3

(* get_root: the address base + the UOffset stored at base.                *)
get_root(mem, base) ==
    LET off == read_scalar(mem, base, SizeOfUOffset)
    IN  IF off = Undef THEN Undef ELSE base + off

(* get_optional_field_offset that reads the slot without comparing the     *)
(* field with the vtable's size.                                           *)
get_optional_field_offset_unchecked(mem, table, field) ==
    LET so     == read_soffset(mem, table)
        vtable == table - so
        voff   == read_scalar(mem, vtable + field, SizeOfVOffset)
    IN  IF so = Undef THEN Undef ELSE voff

(* Table::get_optional_field_offset: Some(voff) as voff, None as 0.        *)
get_optional_field_offset(mem, table, field) ==
    LET so     == read_soffset(mem, table)
        vtable == table - so
        vtsize == read_scalar(mem, vtable, SizeOfVOffset)
        voff   == read_scalar(mem, vtable + field, SizeOfVOffset)
    IN  IF so = Undef \/ vtsize = Undef THEN Undef
        ELSE IF field < vtsize THEN voff
        ELSE 0

(* Table::get_field::<T> for a T of w bytes.                               *)
get_field(mem, table, field, w, def) ==
    LET voffs == get_optional_field_offset(mem, table, field)
    IN  IF voffs = Undef THEN Undef
        ELSE IF voffs = 0 THEN def
        ELSE read_scalar(mem, table + voffs, w)

(* Table::check_field.                                                     *)
check_field(mem, table, field) ==
    LET voffs == get_optional_field_offset(mem, table, field)
    IN  IF voffs = Undef THEN Undef ELSE voffs # 0

(* Table::get_struct: the address of the inlined struct.                   *)
get_struct(mem, table, field) ==
    LET voffs == get_optional_field_offset(mem, table, field)
    IN  IF voffs = Undef THEN Undef
        ELSE IF voffs = 0 THEN NoValue
        ELSE table + voffs

(* Table::get_ref: the address the field's UOffset refers to.              *)
get_ref(mem, table, field) ==
    LET voffs == get_optional_field_offset(mem, table, field)
        p     == table + voffs
        offs  == read_scalar(mem, p, SizeOfUOffset)
    IN  IF voffs = Undef THEN Undef
        ELSE IF voffs = 0 THEN NoValue
        ELSE IF offs = Undef THEN Undef
        ELSE p + offs

(* Vector::len and Vector::data.                                           *)
Vector_len(mem, vec) == read_scalar(mem, vec, SizeOfUOffset)

Vector_data(vec) == vec + SizeOfUOffset

(* <Str as AsRef<str>>::as_ref: the len() bytes at data().                 *)
Str_as_ref(mem, vec) ==
    IF Vector_len(mem, vec) = Undef THEN Undef
    ELSE PeekN(mem, Vector_data(vec), Vector_len(mem, vec))

(* <T as Indirect<T>>::read for a scalar T of w bytes.                     *)
Scalar_read(mem, buf, idx, w) == read_scalar(mem, buf + idx * w, w)

(* <Offset<T> as Indirect<&T>>::read: the address of the referent.         *)
Offset_read(mem, buf, idx) ==
    LET off == read_scalar(mem, buf + idx * SizeOfUOffset, SizeOfUOffset)
    IN  IF off = Undef THEN Undef ELSE buf + off

(* Vector<T>::get(idx) for scalars of w bytes, Vector<Offset<T>>::get(idx).*)
Vector_get(mem, vec, idx, w) ==
    IF Vector_len(mem, vec) = Undef THEN Undef
    ELSE IF idx < Vector_len(mem, vec) THEN Scalar_read(mem, Vector_data(vec), idx, w)
    ELSE NoValue

Vector_get_ref(mem, vec, idx) ==
    IF Vector_len(mem, vec) = Undef THEN Undef
    ELSE IF idx < Vector_len(mem, vec) THEN Offset_read(mem, Vector_data(vec), idx)
    ELSE NoValue

---------------------------------------------------------------------------
(* Sorted vectors of tables and uninitialized vectors.                     *)

(* An OrdTable whose key is the u32 scalar of the first field (default 0): *)
(* the key of the table at distance off from the end of the arena.         *)
KeyField == field_index_to_offset(0)
KeyWidth == SizeOfUOffset

key_of(b, off) == get_field(b.inner, data_at(b, off), KeyField, KeyWidth, 0)

(* a.key_cmp(b) is not Greater.                                            *)
key_cmp_le(b, a_off, b_off) == key_of(b, a_off) <= key_of(b, b_off)

RECURSIVE insert_sorted(_, _, _)
insert_sorted(b, sorted, x) ==
    IF sorted = <<>> THEN <<x>>
    ELSE IF key_cmp_le(b, sorted[Len(sorted)], x) THEN Append(sorted, x)
    ELSE Append(insert_sorted(b, SubSeq(sorted, 1, Len(sorted) - 1), x),
                sorted[Len(sorted)])

RECURSIVE sort_by(_, _)
(* v.sort_by(..): the stable sort of v by key.                             *)
sort_by(b, v) ==
    IF v = <<>> THEN <<>>
    ELSE insert_sorted(b, sort_by(b, SubSeq(v, 1, Len(v) - 1)), v[Len(v)])

create_vector_of_sorted_tables(b, v) ==
    IF Len(v) >= 2 /\ \E i \in 1..Len(v) : v[i] <= 0 \/ v[i] > Len(b.inner)
    THEN Panic(b, "index")
    ELSE create_vector(b, SizeOfUOffset, sort_by(b, v))

(* create_uninitialized_vector::<T>(n) for a T of w bytes: the builder     *)
(* after the call; it returns (get_size(), slice).                         *)
uninitialized_buf(b, n, w) == make_space(start_vector(not_nested(b), n, w), n * w).next

create_uninitialized_vector(b, n, w) ==
    LET b0  == not_nested(b)
        b1  == start_vector(b0, n, w)
        b2  == make_space(b1, n * w)
        b3  == end_vector(b2, n)
    IN  IF ~Ok(b0) THEN b0
        ELSE IF uninitialized_buf(b, n, w) = 0 THEN Panic(b3, "index")
        ELSE b3

(* The address in inner of the first element of the returned slice:        *)
(* data_at_mut(buf) with buf the value make_space returned.                *)
uninitialized_slice(b, n, w) ==
    data_at(create_uninitialized_vector(b, n, w), uninitialized_buf(b, n, w))

---------------------------------------------------------------------------
(* The client: one action per call of the builder's interface.  Every call *)
(* is made on fbb and, with the same arguments, on fresh.                  *)

NoCall ==
    [op |-> "new", field |-> 0, w |-> 0, e |-> 0, def |-> 0, n |-> 0,
     v |-> <<>>, size0 |-> 0, ret |-> 0]

Called(op) == [NoCall EXCEPT !.op = op, !.size0 = get_size(fbb)]

(* The builder keeps what a create_ call returned.                         *)
Returned(b, r) == IF Ok(b) THEN [b EXCEPT !.objs = Append(@, r)] ELSE b

(* The client goes on calling while no call has panicked, the buffer is    *)
(* not finished, the arena is within the bound and its watermark is inside *)
(* the allocation.                                                         *)
Usable ==
    /\ Ok(fbb) /\ last.op # "finish" /\ get_size(fbb) <= MaxSize
    /\ fbb.next <= Len(fbb.inner)

Init ==
    /\ \E checks \in BOOLEAN :
          /\ fbb = FlatBufferBuilder_new(InitialCapacity, checks)
          /\ fresh = FlatBufferBuilder_new(InitialCapacity, checks)
    /\ last = NoCall
    /\ nested = FALSE
    /\ made = <<>>
    /\ adds = <<>>
    /\ ops = 0

Clear ==
    /\ Ok(fbb)
    /\ fbb' = clear(fbb)
    /\ fresh' = FlatBufferBuilder_new(InitialCapacity, fbb.overflow_checks)
    /\ last' = Called("clear")
    /\ nested' = FALSE
    /\ made' = <<>>
    /\ adds' = <<>>
    /\ ops' = ops + 1

ForceDefaults(fd) ==
    /\ Usable
    /\ fbb' = force_defaults(fbb, fd)
    /\ fresh' = force_defaults(fresh, fd)
    /\ last' = [Called("force_defaults") EXCEPT !.e = IF fd THEN 1 ELSE 0]
    /\ ops' = ops + 1
    /\ UNCHANGED <<nested, made, adds>>

Pad(n) ==
    /\ Usable
    /\ fbb' = pad(fbb, n)
    /\ fresh' = pad(fresh, n)
    /\ last' = [Called("pad") EXCEPT !.n = n]
    /\ ops' = ops + 1
    /\ UNCHANGED <<nested, made, adds>>

Align(al) ==
    /\ Usable
    /\ fbb' = align(fbb, al)
    /\ fresh' = align(fresh, al)
    /\ last' = [Called("align") EXCEPT !.w = al]
    /\ ops' = ops + 1
    /\ UNCHANGED <<nested, made, adds>>

PreAlign(n, al) ==
    /\ Usable
    /\ fbb' = pre_align(fbb, n, al)
    /\ fresh' = pre_align(fresh, n, al)
    /\ last' = [Called("pre_align") EXCEPT !.n = n, !.w = al]
    /\ ops' = ops + 1
    /\ UNCHANGED <<nested, made, adds>>

PushBytes(dat) ==
    /\ Usable
    /\ fbb' = push_bytes(fbb, dat)
    /\ fresh' = push_bytes(fresh, dat)
    /\ last' = [Called("push_bytes") EXCEPT !.v = dat, !.n = Len(dat)]
    /\ ops' = ops + 1
    /\ UNCHANGED <<nested, made, adds>>

PopBytes(n) ==
    /\ Usable
    /\ fbb' = pop_bytes(fbb, n)
    /\ fresh' = pop_bytes(fresh, n)
    /\ last' = [Called("pop_bytes") EXCEPT !.n = n]
    /\ ops' = ops + 1
    /\ UNCHANGED <<nested, made, adds>>

(* reserve_elements returns what make_space returns: the new next.         *)
ReserveElements(n, elem_size) ==
    /\ Usable
    /\ fbb' = reserve_elements(fbb, n, elem_size)
    /\ fresh' = reserve_elements(fresh, n, elem_size)
    /\ last' = [Called("reserve_elements") EXCEPT !.e = n, !.w = elem_size,
                   !.n = n * elem_size, !.ret = fbb'.next]
    /\ ops' = ops + 1
    /\ UNCHANGED <<nested, made, adds>>

PushScalar(w, e) ==
    /\ Usable
    /\ fbb' = push_scalar(fbb, w, e)
    /\ fresh' = push_scalar(fresh, w, e)
    /\ last' = [Called("push_scalar") EXCEPT !.w = w, !.e = e,
                                             !.ret = get_size(fbb')]
    /\ ops' = ops + 1
    /\ UNCHANGED <<nested, made, adds>>

StartTable ==
    /\ Usable
    /\ fbb' = [start_table(fbb) EXCEPT !.start_ret = get_size(fbb)]
    /\ fresh' = [start_table(fresh) EXCEPT !.start_ret = get_size(fresh)]
    /\ last' = [Called("start_table") EXCEPT !.ret = get_size(fbb),
                                             !.n = IF nested THEN 1 ELSE 0]
    /\ nested' = TRUE
    /\ adds' = IF nested THEN adds ELSE <<>>
    /\ ops' = ops + 1
    /\ UNCHANGED made

AddScalar(field, w, e, def) ==
    /\ Usable
    /\ nested
    /\ fbb' = add_scalar(fbb, field, w, e, def)
    /\ fresh' = add_scalar(fresh, field, w, e, def)
    /\ last' = [Called("add_scalar") EXCEPT !.field = field, !.w = w, !.e = e,
                                            !.def = def]
    /\ adds' = Append(adds, [field |-> field, w |-> w, e |-> e, def |-> def,
                             forced |-> fbb.force_defaults])
    /\ ops' = ops + 1
    /\ UNCHANGED <<nested, made>>

EndTable(n) ==
    /\ Usable
    /\ nested
    /\ LET e1 == emit_vtable(fbb, fbb.start_ret, n)
           e2 == emit_vtable(fresh, fresh.start_ret, n)
       IN  \E ub1 \in SUBSET (IF Ok(e1) THEN undetermined(e1) ELSE {}),
              ub2 \in SUBSET (IF Ok(e2) THEN undetermined(e2) ELSE {}) :
              /\ fbb' = Returned(end_table(fbb, fbb.start_ret, n, ub1), table_loc(fbb))
              /\ fresh' = Returned(end_table(fresh, fresh.start_ret, n, ub2),
                                   table_loc(fresh))
    /\ last' = [Called("end_table") EXCEPT !.n = n, !.ret = table_loc(fbb)]
    /\ nested' = FALSE
    /\ made' = IF Ok(fbb')
               THEN Append(made, [kind |-> "table", n |-> n, w |-> 0, v |-> adds])
               ELSE made
    /\ adds' = <<>>
    /\ ops' = ops + 1

CreateString(s) ==
    /\ Usable
    /\ fbb' = Returned(create_string(fbb, s), get_size(create_string(fbb, s)))
    /\ fresh' = Returned(create_string(fresh, s), get_size(create_string(fresh, s)))
    /\ last' = [Called("create_string") EXCEPT !.v = s, !.n = IF nested THEN 1 ELSE 0,
                                               !.ret = get_size(fbb')]
    /\ made' = IF Ok(fbb')
               THEN Append(made, [kind |-> "string", n |-> Len(s), w |-> 1, v |-> s])
               ELSE made
    /\ ops' = ops + 1
    /\ UNCHANGED <<nested, adds>>

CreateVector(w, v) ==
    /\ Usable
    /\ fbb' = Returned(create_vector(fbb, w, v), get_size(create_vector(fbb, w, v)))
    /\ fresh' = Returned(create_vector(fresh, w, v),
                         get_size(create_vector(fresh, w, v)))
    /\ last' = [Called("create_vector") EXCEPT !.w = w, !.v = v,
                                               !.n = IF nested THEN 1 ELSE 0,
                                               !.ret = get_size(fbb')]
    /\ made' = IF Ok(fbb')
               THEN Append(made, [kind |-> "vector", n |-> Len(v), w |-> w, v |-> v])
               ELSE made
    /\ ops' = ops + 1
    /\ UNCHANGED <<nested, adds>>

CreateVectorOfStructs(sz, al, v) ==
    /\ Usable
    /\ fbb' = Returned(create_vector_of_structs(fbb, sz, al, v),
                       get_size(create_vector_of_structs(fbb, sz, al, v)))
    /\ fresh' = Returned(create_vector_of_structs(fresh, sz, al, v),
                         get_size(create_vector_of_structs(fresh, sz, al, v)))
    /\ last' = [Called("create_vector_of_structs") EXCEPT
                   !.w = al, !.v = v, !.n = IF nested THEN 1 ELSE 0,
                   !.ret = get_size(fbb')]
    /\ made' = IF Ok(fbb')
               THEN Append(made, [kind |-> "structs", n |-> Len(v), w |-> sz, v |-> v])
               ELSE made
    /\ ops' = ops + 1
    /\ UNCHANGED <<nested, adds>>

(* The offsets a builder returned for the objects numbered ks.             *)
Offsets(b, ks) ==
    [i \in 1..Len(ks) |-> IF ks[i] <= Len(b.objs) THEN b.objs[ks[i]] ELSE 0]

(* create_vector_of_sorted_tables over the tables numbered ks in made.     *)
CreateVectorOfSortedTables(ks) ==
    /\ Usable
    /\ fbb' = Returned(create_vector_of_sorted_tables(fbb, Offsets(fbb, ks)),
                       get_size(create_vector_of_sorted_tables(fbb, Offsets(fbb, ks))))
    /\ fresh' = Returned(create_vector_of_sorted_tables(fresh, Offsets(fresh, ks)),
                         get_size(create_vector_of_sorted_tables(fresh, Offsets(fresh, ks))))
    /\ last' = [Called("create_vector_of_sorted_tables") EXCEPT
                   !.v = Offsets(fbb, ks), !.n = IF nested THEN 1 ELSE 0,
                   !.ret = get_size(fbb')]
    /\ made' = IF Ok(fbb')
               THEN Append(made, [kind |-> "sorted", n |-> Len(ks), w |-> SizeOfUOffset,
                                  v |-> Offsets(fbb, ks)])
               ELSE made
    /\ ops' = ops + 1
    /\ UNCHANGED <<nested, adds>>

CreateUninitializedVector(n, w) ==
    /\ Usable
    /\ fbb' = Returned(create_uninitialized_vector(fbb, n, w),
                       get_size(create_uninitialized_vector(fbb, n, w)))
    /\ fresh' = Returned(create_uninitialized_vector(fresh, n, w),
                         get_size(create_uninitialized_vector(fresh, n, w)))
    /\ last' = [Called("create_uninitialized_vector") EXCEPT
                   !.w = w, !.n = IF nested THEN 1 ELSE 0, !.e = n,
                   !.ret = get_size(fbb')]
    /\ made' = IF Ok(fbb')
               THEN Append(made, [kind |-> "uninit", n |-> n, w |-> w, v |-> <<>>])
               ELSE made
    /\ ops' = ops + 1
    /\ UNCHANGED <<nested, adds>>

ReferTo(off) ==
    /\ Usable
    /\ fbb' = refer_to(fbb, off)
    /\ fresh' = refer_to(fresh, off)
    /\ last' = [Called("refer_to") EXCEPT !.e = off, !.ret = refer_to_ret(fbb, off)]
    /\ ops' = ops + 1
    /\ UNCHANGED <<nested, made, adds>>

PushOffset(off) ==
    /\ Usable
    /\ fbb' = push_offset(fbb, off)
    /\ fresh' = push_offset(fresh, off)
    /\ last' = [Called("push_offset") EXCEPT !.e = off, !.ret = get_size(fbb')]
    /\ ops' = ops + 1
    /\ UNCHANGED <<nested, made, adds>>

AddOffset(field, off) ==
    /\ Usable
    /\ nested
    /\ fbb' = add_offset(fbb, field, off)
    /\ fresh' = add_offset(fresh, field, off)
    /\ last' = [Called("add_offset") EXCEPT !.field = field, !.e = off,
                   !.ret = refer_to_ret(fbb, off)]
    /\ ops' = ops + 1
    /\ UNCHANGED <<nested, made, adds>>

AddStruct(field, al, bytes) ==
    /\ Usable
    /\ nested
    /\ fbb' = add_struct(fbb, field, al, bytes)
    /\ fresh' = add_struct(fresh, field, al, bytes)
    /\ last' = [Called("add_struct") EXCEPT !.field = field, !.w = al, !.v = bytes]
    /\ ops' = ops + 1
    /\ UNCHANGED <<nested, made, adds>>

AddStructOffset(field, off) ==
    /\ Usable
    /\ nested
    /\ fbb' = add_struct_offset(fbb, field, off)
    /\ fresh' = add_struct_offset(fresh, field, off)
    /\ last' = [Called("add_struct_offset") EXCEPT !.field = field, !.e = off]
    /\ ops' = ops + 1
    /\ UNCHANGED <<nested, made, adds>>

TrackField(field, off) ==
    /\ Usable
    /\ nested
    /\ fbb' = track_field(fbb, field, off)
    /\ fresh' = track_field(fresh, field, off)
    /\ last' = [Called("track_field") EXCEPT !.field = field, !.e = off]
    /\ ops' = ops + 1
    /\ UNCHANGED <<nested, made, adds>>

(* finish(root): root is what the call that built object k returned, or,   *)
(* for k = 0, the number lit.                                              *)
Root(b, k, lit) == IF k = 0 THEN lit ELSE IF k <= Len(b.objs) THEN b.objs[k] ELSE 0

Finish(k, lit) ==
    /\ Usable
    /\ fbb' = finish(fbb, Root(fbb, k, lit))
    /\ fresh' = finish(fresh, Root(fresh, k, lit))
    /\ last' = [Called("finish") EXCEPT !.e = Root(fbb, k, lit), !.n = k]
    /\ ops' = ops + 1
    /\ UNCHANGED <<nested, made, adds>>

---------------------------------------------------------------------------
(* Spec: a client that makes any MaxOps calls.                             *)

Widths == {1, 2, 4, 8}
FieldSlots == {field_index_to_offset(0), field_index_to_offset(1)}

More == ops < MaxOps

Next ==
    \/ More /\ Clear
    \/ More /\ \E fd \in BOOLEAN : ForceDefaults(fd)
    \/ More /\ \E n \in {1, 2} : Pad(n)
    \/ More /\ \E al \in {2, 8} : Align(al)
    \/ More /\ \E al \in {8} : PreAlign(1, al)
    \/ More /\ \E w \in Widths : PushScalar(w, 1)
    \/ More /\ StartTable
    \/ More /\ \E field \in FieldSlots, w \in Widths, e \in {0, 1} :
                  AddScalar(field, w, e, 0)
    \/ More /\ \E n \in 0..2 : EndTable(n)
    \/ More /\ \E s \in {<<>>, <<104, 105>>} : CreateString(s)
    \/ More /\ \E w \in Widths, v \in {<<>>, <<1, 2>>} : CreateVector(w, v)
    \/ More /\ \E v \in {<<>>, <<<<1, 0, 0, 0, 0, 0, 0, 0>>>>} :
                  CreateVectorOfStructs(8, 8, v)
    \/ More /\ \E n \in {0, 1} : CreateUninitializedVector(n, 2)
    \/ More /\ \E k \in 1..Len(made) : Finish(k, 0)
    \/ More /\ \E lit \in {0, get_size(fbb) + 5} : Finish(0, lit)

Spec == Init /\ [][Next]_vars

---------------------------------------------------------------------------
(* SpecRoundTrip: a client that builds one table at a time, from scalars   *)
(* of every width, and finishes the buffer with a table as its root.       *)

(* A value that needs every byte of a w-byte scalar's two low bytes.       *)
Wide(w) == IF w = 1 THEN 2 ELSE 258

TripOps == MaxOps + 2

MoreTrip == ops < TripOps

NextRoundTrip ==
    \/ MoreTrip /\ ~nested /\ Clear
    \/ MoreTrip /\ \E fd \in BOOLEAN : ForceDefaults(fd)
    \/ MoreTrip /\ ~nested /\ \E n \in {1, 6} : Pad(n)
    \/ MoreTrip /\ ~nested /\ StartTable
    \/ MoreTrip /\ \E field \in FieldSlots, w \in Widths :
                      \E e \in {0, Wide(w)}, def \in {0, Wide(w)} :
                         /\ \A i \in 1..Len(adds) : adds[i].field # field
                         /\ AddScalar(field, w, e, def)
    \/ MoreTrip /\ \E n \in 1..2 : EndTable(n)
    \/ MoreTrip /\ ~nested /\ made # <<>> /\ Finish(Len(made), 0)

SpecRoundTrip == Init /\ [][NextRoundTrip]_vars

---------------------------------------------------------------------------
(* SpecTables: a client that builds up to MaxTables tables keyed by their  *)
(* first field, then a sorted vector of them, then finishes the buffer.    *)

TableOps == MaxOps + 5

MoreTables == ops < TableOps

IsTable(k) == k \in 1..Len(made) /\ made[k].kind = "table"

(* The sequences without repetition over a set of object numbers.          *)
RECURSIVE Arrangements(_)
Arrangements(S) ==
    IF S = {} THEN {<<>>}
    ELSE UNION {{<<k>> \o a : a \in Arrangements(S \ {k})} : k \in S}

NextTables ==
    \/ MoreTables /\ ~nested /\ made = <<>> /\ Clear
    \/ MoreTables /\ ~nested /\ made = <<>> /\ \E fd \in BOOLEAN : ForceDefaults(fd)
    \/ MoreTables /\ ~nested /\ made = <<>> /\ Pad(4)
    \/ MoreTables /\ ~nested /\ Len(made) < MaxTables /\ (\A k \in 1..Len(made) : IsTable(k))
                  /\ StartTable
    \/ MoreTables /\ adds = <<>> /\ \E e \in 0..2 : AddScalar(KeyField, KeyWidth, e, 0)
    \/ MoreTables /\ \E n \in 1..2 : EndTable(n)
    \/ MoreTables /\ ~nested /\ made # <<>> /\ (\A k \in 1..Len(made) : IsTable(k))
                  /\ \E ks \in Arrangements(1..Len(made)) : CreateVectorOfSortedTables(ks)
    \/ MoreTables /\ ~nested /\ made # <<>> /\ Finish(Len(made), 0)

SpecTables == Init /\ [][NextTables]_vars

---------------------------------------------------------------------------
(* SpecSlots: a client that builds tables whose fields are scalars,        *)
(* offsets, inline structs and positions it registers itself.              *)

SlotOps == MaxOps + 1

MoreSlots == ops < SlotOps

(* 2^16: one more than the largest VOffset.                                *)
VOffsetRange == 65536

(* The positions the client registers with add_struct_offset and           *)
(* track_field: where the table started, the top of the arena, where the   *)
(* table's own SOffset will be, past it, and 2^16 bytes from it.           *)
SlotPositions ==
    {fbb.start_ret, get_size(fbb), table_loc(fbb), table_loc(fbb) + 4,
     table_loc(fbb) + VOffsetRange}

(* The targets the client refers to: the end of the buffer, the objects it *)
(* built, the top of the arena and positions up to four bytes past it.     *)
OffsetTargets ==
    {0} \cup {fbb.objs[k] : k \in 1..Len(fbb.objs)}
        \cup {get_size(fbb) + i : i \in {0, 1, 3, 4}}

NextSlots ==
    \/ MoreSlots /\ ~nested /\ \E off \in OffsetTargets : ReferTo(off)
    \/ MoreSlots /\ ~nested /\ \E off \in OffsetTargets : PushOffset(off)
    \/ MoreSlots /\ ~nested /\ \E n \in {3, 8} : Pad(n)
    \/ MoreSlots /\ ~nested /\ made = <<>> /\ CreateString(<<104, 105>>)
    \/ MoreSlots /\ ~nested /\ StartTable
    \/ MoreSlots /\ \E field \in FieldSlots, e \in {0, 1} : AddScalar(field, 2, e, 0)
    \/ MoreSlots /\ \E field \in FieldSlots, k \in 0..Len(made) :
                       AddOffset(field, Root(fbb, k, 0))
    \/ MoreSlots /\ \E field \in FieldSlots : AddStruct(field, 2, <<7, 0>>)
    \/ MoreSlots /\ \E field \in FieldSlots, off \in SlotPositions :
                       AddStructOffset(field, off)
    \/ MoreSlots /\ \E off \in SlotPositions : TrackField(field_index_to_offset(0), off)
    \/ MoreSlots /\ \E n \in 1..2 : EndTable(n)

SpecSlots == Init /\ [][NextSlots]_vars

---------------------------------------------------------------------------
(* SpecArena: a client that calls the arena directly, through the four     *)
(* calls that are VecDownward's fill, push, make_space and pop.            *)

ArenaOps == MaxOps + 1

MoreArena == ops < ArenaOps

NextArena ==
    \/ MoreArena /\ \E n \in {0, 1, 5} : Pad(n)
    \/ MoreArena /\ \E dat \in {<<1>>, <<2, 3, 4>>, <<5, 6, 7, 8, 9, 10, 11, 12, 13>>} :
                       PushBytes(dat)
    \/ MoreArena /\ \E n \in {1, 2}, elem_size \in {1, 4} : ReserveElements(n, elem_size)
    \/ MoreArena /\ \E n \in {1, 2} : PopBytes(n)

SpecArena == Init /\ [][NextArena]_vars

---------------------------------------------------------------------------
(* Properties.                                                             *)

(* The table the client built last, and the add_scalar calls made for it.  *)
LastTable == made[Len(made)]

(* An add_scalar call whose field slot lies inside a vtable of n fields.   *)
InVtable(a, n) == a.field < field_index_to_offset(n)

(* An add_scalar call that add_scalar skips.                               *)
Elided(a) == a.e = a.def /\ ~a.forced

(* C1: scalar round trip.  After start_table, add_scalar(f, x, d),         *)
(* end_table(start, n) and finish(root) with the table as root, get_root   *)
(* on get_buffer() followed by get_field(f, d) returns x, for every width, *)
(* with force_defaults off and on, for every slot f inside the vtable.     *)
C1_ScalarRoundTrip ==
    (last.op = "finish" /\ Ok(fbb) /\ IsTable(Len(made))) =>
        LET buf  == get_buffer(fbb)
            root == get_root(buf, 0)
        IN  \A i \in 1..Len(LastTable.v) :
               LET a == LastTable.v[i]
               IN  InVtable(a, LastTable.n) =>
                      get_field(buf, root, a.field, a.w, a.def) = a.e

(* A finished buffer built with force_defaults on, whose root table holds  *)
(* an 8-byte scalar equal to its two-byte-wide default, present and read   *)
(* back.                                                                   *)
C1_Witness ==
    /\ last.op = "finish" /\ Ok(fbb) /\ IsTable(Len(made))
    /\ \E i \in 1..Len(LastTable.v) :
          LET a   == LastTable.v[i]
              buf == get_buffer(fbb)
          IN  /\ InVtable(a, LastTable.n) /\ a.w = 8 /\ a.forced
              /\ a.e = Wide(8) /\ a.def = Wide(8)
              /\ check_field(buf, get_root(buf, 0), a.field) = TRUE
              /\ get_field(buf, get_root(buf, 0), a.field, a.w, 0) = Wide(8)

(* The table end_table has just returned, in the arena after the call.     *)
EndedTable == data_at(fbb', last'.ret)

(* C10: default elision.  With force_defaults off, add_scalar(f, x, d)     *)
(* with x = d appends no bytes and records no pending field, and after     *)
(* end_table the vtable slot f is 0 and check_field(f) is false; with      *)
(* force_defaults on the same call appends the scalar and records the      *)
(* field, and check_field(f) is true.                                      *)
C10_Step ==
    /\ (last'.op = "add_scalar" /\ last'.e = last'.def /\ Ok(fbb)) =>
          IF fbb.force_defaults
          THEN /\ get_size(fbb') >= get_size(fbb) + last'.w
               /\ fbb'.offset_buf =
                     Append(fbb.offset_buf, [off |-> get_size(fbb'), id |-> last'.field])
          ELSE /\ get_size(fbb') = get_size(fbb)
               /\ fbb'.inner = fbb.inner
               /\ fbb'.offset_buf = fbb.offset_buf
    /\ (last'.op = "end_table" /\ Ok(fbb')) =>
          \A i \in 1..Len(adds) :
             (InVtable(adds[i], last'.n) /\ adds[i].e = adds[i].def) =>
                IF adds[i].forced
                THEN check_field(fbb'.inner, EndedTable, adds[i].field) = TRUE
                ELSE /\ check_field(fbb'.inner, EndedTable, adds[i].field) = FALSE
                     /\ get_optional_field_offset(fbb'.inner, EndedTable,
                                                  adds[i].field) = 0

C10_DefaultElision == [][C10_Step]_vars

(* A table just ended that holds one elided default and one forced one.    *)
C10_Witness ==
    /\ last.op = "end_table" /\ Ok(fbb) /\ IsTable(Len(made))
    /\ \E i, j \in 1..Len(LastTable.v) :
          LET a == LastTable.v[i]
              c == LastTable.v[j]
              t == data_at(fbb, last.ret)
          IN  /\ InVtable(a, LastTable.n) /\ Elided(a)
              /\ check_field(fbb.inner, t, a.field) = FALSE
              /\ InVtable(c, LastTable.n) /\ c.e = c.def /\ c.forced
              /\ check_field(fbb.inner, t, c.field) = TRUE

(* C7: root resolution.  finish(root) with root <= get_size() does not     *)
(* abort; afterwards the first four bytes of get_buffer() are a            *)
(* little-endian UOffset v >= 4 with v = get_size() - root, so get_root    *)
(* points at the object whose position-from-end is root.                   *)
C7_RootResolution ==
    (last.op = "finish" /\ last.e <= last.size0) =>
        LET buf == get_buffer(fbb)
            v   == get_size(fbb) - last.e
        IN  /\ Ok(fbb)
            /\ v >= SizeOfUOffset
            /\ SubSeq(buf, 1, SizeOfUOffset) =
                  <<v % 256, (v \div 256) % 256, (v \div 65536) % 256, v \div 16777216>>
            /\ get_root(buf, 0) = Len(buf) - last.e
            /\ fbb.next + get_root(buf, 0) = data_at(fbb, last.e)

(* A buffer finished with an object as root, after padding was needed.     *)
C7_Witness ==
    /\ last.op = "finish" /\ Ok(fbb) /\ last.n > 0 /\ last.e > 0
    /\ get_size(fbb) > last.size0 + SizeOfUOffset
    /\ get_root(get_buffer(fbb), 0) = get_size(fbb) - last.e

(* C9: after finish(root), get_size() is a multiple of min_align (as it is *)
(* after finish) and the root UOffset is the first word of the buffer:     *)
(* nothing was emitted after it.  Every alignment the client of this       *)
(* module requests is a power of two.                                      *)
C9_Step ==
    (last'.op = "finish" /\ Ok(fbb')) =>
        /\ get_size(fbb') % fbb'.min_align = 0
        /\ get_size(fbb') % fbb.min_align = 0
        /\ read_scalar(fbb'.inner, fbb'.next, SizeOfUOffset) = get_size(fbb') - last'.e

C9_FinishAligned == [][C9_Step]_vars

(* A finish that had to pad for an 8-byte min_align.                       *)
C9_Witness ==
    /\ last.op = "finish" /\ Ok(fbb) /\ fbb.min_align = 8
    /\ get_size(fbb) > last.size0 + SizeOfUOffset
    /\ get_size(fbb) % 8 = 0

(* The vtable of the table at distance off from the end: its address, and  *)
(* its bytes (as many as its first word says).                             *)
VtableOf(b, off) == data_at(b, off) - read_soffset(b.inner, data_at(b, off))

VtableBytes(b, off) ==
    PeekN(b.inner, VtableOf(b, off),
          read_scalar(b.inner, VtableOf(b, off), SizeOfVOffset))

(* C2: vtable deduplication.  Whenever end_table returns, any two tables   *)
(* ended since the last clear whose vtables have identical size and        *)
(* contents resolve, through their SOffsets, to the same vtable position,  *)
(* and the pool holds that vtable once.                                    *)
C2_VtableDedup ==
    (last.op = "end_table" /\ Ok(fbb)) =>
        \A i, j \in 1..Len(made) :
           (IsTable(i) /\ IsTable(j)
              /\ VtableBytes(fbb, fbb.objs[i]) = VtableBytes(fbb, fbb.objs[j])) =>
                 /\ VtableOf(fbb, fbb.objs[i]) = VtableOf(fbb, fbb.objs[j])
                 /\ Cardinality({k \in 1..Len(fbb.vtables) :
                        data_at(fbb, fbb.vtables[k]) = VtableOf(fbb, fbb.objs[i])}) = 1

(* The tables a sorted vector was built from, as addresses in inner.       *)
TableAddrs(b, v) == [i \in 1..Len(v) |-> data_at(b, v[i])]

(* The number of times x occurs in the sequence s.                         *)
Count(s, x) == Cardinality({i \in 1..Len(s) : s[i] = x})

(* C3: sorted-table vector.  After create_vector_of_sorted_tables(v) and   *)
(* finish with the vector as root, Vector::get(i) for i = 0 .. len - 1     *)
(* yields exactly the tables of v, in non-decreasing key order.            *)
C3_SortedVectorReadBack ==
    (last.op = "finish" /\ Ok(fbb) /\ made[Len(made)].kind = "sorted") =>
        LET v    == made[Len(made)].v
            vec  == fbb.next + get_root(get_buffer(fbb), 0)
            got  == [i \in 1..Len(v) |-> Vector_get_ref(fbb.inner, vec, i - 1)]
            want == TableAddrs(fbb, v)
        IN  /\ Vector_len(fbb.inner, vec) = Len(v)
            /\ \A i \in 1..Len(v) : Count(got, want[i]) = Count(want, want[i])
            /\ \A i \in 1..Len(v) - 1 :
                  get_field(fbb.inner, got[i], KeyField, KeyWidth, 0)
                     <= get_field(fbb.inner, got[i + 1], KeyField, KeyWidth, 0)

(* C4: wire format of reference vectors.  Every element stored by          *)
(* create_vector_of_sorted_tables is a UOffset relative to the element's   *)
(* own position: its value is the position-from-end of the element word    *)
(* minus the position-from-end of its target.                              *)
C4_ReferenceVectorFormat ==
    (last.op = "create_vector_of_sorted_tables" /\ Ok(fbb)) =>
        LET targets == sort_by(fbb, last.v)
        IN  \A i \in 1..Len(last.v) :
               LET word == last.ret - SizeOfUOffset * i
               IN  read_scalar(fbb.inner, data_at(fbb, word), SizeOfUOffset)
                      = word - targets[i]

(* C5: reuse.  A builder that was used and then cleared produces, for the  *)
(* calls made since the clear, the finished buffer a freshly constructed   *)
(* builder produces for them.                                              *)
C5_ReuseAfterClear ==
    (last.op = "finish") =>
        /\ fbb.panic = fresh.panic
        /\ Ok(fbb) => get_buffer(fbb) = get_buffer(fresh)

(* C6: nesting is rejected.  Between a start_table and its end_table a     *)
(* call of start_table or of a create_ function aborts by the not-nested   *)
(* assertion.                                                              *)
NestingCalls ==
    {"start_table", "create_string", "create_vector", "create_vector_of_structs",
     "create_uninitialized_vector"}

C6_NestingRejected ==
    (last.op \in NestingCalls /\ last.n = 1) => fbb.panic = "not_nested"

(* C8: min_align is the largest alignment requested since construction or  *)
(* the last clear, through align, pre_align or start_vector.               *)
C8_MinAlignTracksRequests ==
    Ok(fbb) => fbb.min_align = fbb.requested

(* C11: string layout.  create_string(s) returns a position p that is a    *)
(* multiple of 4; the live bytes at position-from-end p are the 32-bit     *)
(* little-endian length of s, then the bytes of s, then a NUL byte, and    *)
(* reading the string back yields s.                                       *)
C11_StringLayout ==
    (last.op = "create_string" /\ Ok(fbb)) =>
        LET p == last.ret
            a == data_at(fbb, p)
            s == last.v
        IN  /\ p % SizeOfUOffset = 0
            /\ p <= get_size(fbb)
            /\ PeekN(fbb.inner, a, SizeOfUOffset + Len(s) + 1)
                  = to_le(Len(s), SizeOfUOffset) \o s \o <<0>>
            /\ Str_as_ref(fbb.inner, a) = s

(* A non-empty string created on an arena whose size was not a multiple of *)
(* 4, read back.                                                           *)
C11_Witness ==
    /\ last.op = "create_string" /\ Ok(fbb)
    /\ last.v # <<>> /\ last.size0 % SizeOfUOffset # 0
    /\ Str_as_ref(fbb.inner, data_at(fbb, last.ret)) = last.v

(* C12: scalar vector layout.  create_vector(v) over scalars of width w    *)
(* returns a position p that is a multiple of 4; the live bytes at p are   *)
(* the 32-bit length of v immediately followed by v[0], v[1], ... in       *)
(* order, each little-endian and at a position-from-end that is a multiple *)
(* of w; Vector::get(i) returns v[i] for i < |v| and None for i >= |v|.    *)
C12_ScalarVectorLayout ==
    (last.op = "create_vector" /\ Ok(fbb)) =>
        LET p   == last.ret
            vec == data_at(fbb, p)
            v   == last.v
            w   == last.w
        IN  /\ p % SizeOfUOffset = 0
            /\ p <= get_size(fbb)
            /\ PeekN(fbb.inner, vec, SizeOfUOffset) = to_le(Len(v), SizeOfUOffset)
            /\ \A i \in 1..Len(v) :
                  /\ PeekN(fbb.inner, vec + SizeOfUOffset + (i - 1) * w, w)
                        = to_le(v[i], w)
                  /\ (p - SizeOfUOffset - (i - 1) * w) % w = 0
                  /\ Vector_get(fbb.inner, vec, i - 1, w) = v[i]
            /\ \A i \in Len(v)..(Len(v) + 1) :
                  Vector_get(fbb.inner, vec, i, w) = NoValue

(* A two-element vector of 8-byte scalars created on an arena whose size   *)
(* was not a multiple of 8, with its second element read back.             *)
C12_Witness ==
    /\ last.op = "create_vector" /\ Ok(fbb)
    /\ Len(last.v) = 2 /\ last.w = 8 /\ last.size0 % 8 # 0
    /\ Vector_get(fbb.inner, data_at(fbb, last.ret), 1, 8) = last.v[2]
    /\ Vector_get(fbb.inner, data_at(fbb, last.ret), 2, 8) = NoValue

(* The fields a reader asks a table for: inside and past every vtable the  *)
(* client builds.                                                          *)
ReadFields == {field_index_to_offset(i) : i \in 0..3}

(* The widths of the scalars the reader asks for.                          *)
ReadWidths == {1, SizeOfVOffset}

(* C13: absent fields read as default.  For a table whose vtable has size  *)
(* s, whenever f >= s or the slot at f is 0, get_field(f, d) returns d,    *)
(* get_ref(f) and get_struct(f) return no value and check_field(f) is      *)
(* false; whenever f < s and the slot is non-zero, get_field reads the     *)
(* scalar at the table's address plus the slot.                            *)
C13_AbsentFieldsDefault ==
    Ok(fbb) =>
        \A k \in 1..Len(made) : IsTable(k) =>
           LET mem == fbb.inner
               t   == data_at(fbb, fbb.objs[k])
               vt  == VtableOf(fbb, fbb.objs[k])
               sz  == read_scalar(mem, vt, SizeOfVOffset)
           IN  \A f \in ReadFields, w \in ReadWidths :
                  LET slot == read_scalar(mem, vt + f, SizeOfVOffset)
                      d    == Wide(w) + 1
                  IN  IF f >= sz \/ slot = 0
                      THEN /\ get_field(mem, t, f, w, d) = d
                           /\ get_ref(mem, t, f) = NoValue
                           /\ get_struct(mem, t, f) = NoValue
                           /\ check_field(mem, t, f) = FALSE
                      ELSE /\ get_field(mem, t, f, w, d) = read_scalar(mem, t + slot, w)
                           /\ check_field(mem, t, f) = TRUE

(* A table with a stored field, an empty slot inside its vtable and a      *)
(* field past its vtable whose bytes there are not zero.                   *)
C13_Witness ==
    /\ Ok(fbb) /\ IsTable(Len(made))
    /\ LET mem == fbb.inner
           t   == data_at(fbb, fbb.objs[Len(made)])
           vt  == VtableOf(fbb, fbb.objs[Len(made)])
           sz  == read_scalar(mem, vt, SizeOfVOffset)
       IN  /\ sz = field_index_to_offset(2)
           /\ read_scalar(mem, vt + field_index_to_offset(0), SizeOfVOffset) > 0
           /\ get_field(mem, t, field_index_to_offset(0), 1, 7) = 1
           /\ read_scalar(mem, vt + field_index_to_offset(1), SizeOfVOffset) = 0
           /\ get_field(mem, t, field_index_to_offset(1), 1, 7) = 7
           /\ read_scalar(mem, vt + sz, SizeOfVOffset) > 0
           /\ get_field(mem, t, sz, 1, 7) = 7

(* The table end_table returned last: its position, the start and the      *)
(* number of fields it was ended with, its SOffset and its vtable.         *)
EndedAt == last.ret
EndedStart == fbb.start_ret
EndedSOffset == read_soffset(fbb.inner, data_at(fbb, EndedAt))
EndedVtable == data_at(fbb, EndedAt) - EndedSOffset
EndedVtSize == read_scalar(fbb.inner, EndedVtable, SizeOfVOffset)
EndedObjectSize == read_scalar(fbb.inner, EndedVtable + SizeOfVOffset, SizeOfVOffset)

(* The slot f was named by a pending field of the table ended last.        *)
Named(f) == \E i \in 1..Len(LastTable.v) :
               LastTable.v[i].field = f /\ ~Elided(LastTable.v[i])

(* After end_table(start, n) returns t: the SOffset at t is the position   *)
(* of a pooled vtable minus t, the reader's table address minus SOffset is *)
(* the first byte of that vtable, its first word is (n + 2) * 2, its       *)
(* second word is t - start, and every slot no pending field named is 0.   *)
Linkage ==
    /\ \E k \in 1..Len(fbb.vtables) :
          /\ EndedSOffset = fbb.vtables[k] - EndedAt
          /\ EndedVtable = data_at(fbb, fbb.vtables[k])
    /\ EndedVtSize = (last.n + 2) * SizeOfVOffset
    /\ EndedObjectSize = EndedAt - EndedStart
    /\ \A i \in 0..(last.n - 1) :
          ~Named(field_index_to_offset(i)) =>
             read_scalar(fbb.inner, EndedVtable + field_index_to_offset(i),
                         SizeOfVOffset) = 0

(* A table ended with no slots, nothing having been appended to the arena  *)
(* since its start_table.                                                  *)
EmptyTable == last.n = 0 /\ last.size0 = EndedStart

(* C14 as stated: table/vtable linkage after end_table, and for every      *)
(* empty table vt_size = 4 and object_size = 4.                            *)
C14_TableVtableLinkage ==
    (last.op = "end_table" /\ Ok(fbb)) =>
        /\ Linkage
        /\ EmptyTable => (EndedVtSize = 4 /\ EndedObjectSize = 4)

(* C14, amended: table/vtable linkage after end_table; an empty table has  *)
(* vt_size = 4, and object_size = 4 when start_table was called on an      *)
(* arena whose size was a multiple of 4: object_size is t - start, which   *)
(* counts the padding that aligns the SOffset.                             *)
C14_TableVtableLinkageAligned ==
    (last.op = "end_table" /\ Ok(fbb)) =>
        /\ Linkage
        /\ EmptyTable =>
              /\ EndedVtSize = 4
              /\ EndedObjectSize = 4 + padding_bytes(EndedStart, SizeOfSOffset)
              /\ EndedStart % SizeOfSOffset = 0 => EndedObjectSize = 4

(* An empty table started on a non-empty arena whose size was a multiple   *)
(* of 4: its SOffset leads the reader to a vtable of size 4 that records   *)
(* an object of size 4.                                                    *)
C14_Witness ==
    /\ last.op = "end_table" /\ Ok(fbb) /\ EmptyTable
    /\ EndedStart > 0 /\ EndedStart % SizeOfSOffset = 0
    /\ EndedSOffset = 4 /\ EndedVtSize = 4 /\ EndedObjectSize = 4
    /\ EndedVtable = data_at(fbb, fbb.vtables[Len(fbb.vtables)])

(* The fields pending when end_table is called, and the position the table *)
(* it ends will have.                                                      *)
Pending == fbb.offset_buf
VtableLoc == table_loc(fbb)

(* The slot of a field in the vtable end_table has just emitted.           *)
NewSlot(id) == read_scalar(fbb'.inner, fbb'.next + id, SizeOfVOffset)

(* C15: vtable slot range check.  For every pending field end_table writes *)
(* into the field's slot the value vtable_loc - field position when that   *)
(* difference fits in 16 bits, and aborts when it does not fit; it never   *)
(* stores a truncated slot value.                                          *)
C15_Step ==
    (last'.op = "end_table" /\ Ok(fbb)) =>
        \A i \in 1..Len(Pending) :
           LET d == VtableLoc - Pending[i].off
           IN  IF d \in 0..(VOffsetRange - 1)
               THEN (Ok(fbb') /\ Pending[i].id < field_index_to_offset(last'.n))
                       => NewSlot(Pending[i].id) = d
               ELSE ~Ok(fbb')

C15_SlotRangeCheck == [][C15_Step]_vars

(* The calls that are one make_space, push or fill of the arena.           *)
GrowingCalls == {"pad", "push_bytes", "reserve_elements"}

(* C16: position-from-end stability.  Over make_space, push and fill       *)
(* calls, reallocating or not, every byte of the live region keeps its     *)
(* value and its distance from the end, so data_at(d) returns the same     *)
(* bytes before and after, and each call for n bytes grows the live size   *)
(* by exactly n.                                                           *)
C16_Step ==
    (last'.op \in GrowingCalls) =>
        /\ get_size(fbb') = get_size(fbb) + last'.n
        /\ \A d \in 1..get_size(fbb) :
              /\ Peek(fbb'.inner, data_at(fbb', d)) = Peek(fbb.inner, data_at(fbb, d))
              /\ SubSeq(fbb'.inner, data_at(fbb', d) + 1, Len(fbb'.inner))
                    = SubSeq(fbb.inner, data_at(fbb, d) + 1, Len(fbb.inner))

C16_PositionStability == [][C16_Step]_vars

(* A call that found bytes in the live region, had to reallocate, and left *)
(* the first byte ever pushed where it was, at distance 1 from the end.    *)
C16_Witness ==
    /\ last.op \in GrowingCalls /\ last.size0 > 0
    /\ Len(fbb.inner) > InitialCapacity
    /\ Len(fbb.inner) = 2 * last.size0 + last.n
    /\ get_size(fbb) = last.size0 + last.n
    /\ Peek(fbb.inner, data_at(fbb, 1)) = 1

(* The padding refer_to, push_offset and add_offset add first, and the     *)
(* arena's size after it.                                                  *)
SizeAfterAlignment == last.size0 + padding_bytes(last.size0, SizeOfUOffset)

(* C17: refer_to(t) first pads the arena to a multiple of 4, then returns  *)
(* (size_after_alignment + 4) - t whenever t <= size_after_alignment, so   *)
(* that the result is at least 4 and, written as the next UOffset word,    *)
(* points exactly at position-from-end t; it aborts by its assertion       *)
(* whenever t > size_after_alignment.                                      *)
C17_ReferTo ==
    /\ (last.op = "refer_to") =>
          /\ SizeAfterAlignment % SizeOfUOffset = 0
          /\ SizeAfterAlignment - last.size0 \in 0..(SizeOfUOffset - 1)
          /\ IF last.e <= SizeAfterAlignment
             THEN /\ Ok(fbb)
                  /\ get_size(fbb) = SizeAfterAlignment
                  /\ \A d \in (last.size0 + 1)..get_size(fbb) :
                        Peek(fbb.inner, data_at(fbb, d)) = 0
                  /\ last.ret = (SizeAfterAlignment + SizeOfUOffset) - last.e
                  /\ last.ret >= SizeOfUOffset
             ELSE fbb.panic = "refer_to"
    /\ (last.op = "push_offset") =>
          IF last.e <= SizeAfterAlignment
          THEN /\ Ok(fbb)
               /\ get_size(fbb) = SizeAfterAlignment + SizeOfUOffset
               /\ fbb.next + read_scalar(fbb.inner, fbb.next, SizeOfUOffset)
                     = data_at(fbb, last.e)
          ELSE fbb.panic = "refer_to"
    /\ (last.op = "add_offset" /\ last.e # 0) =>
          IF last.e <= SizeAfterAlignment
          THEN /\ Ok(fbb)
               /\ fbb.next + read_scalar(fbb.inner, fbb.next, SizeOfUOffset)
                     = data_at(fbb, last.e)
          ELSE fbb.panic = "refer_to"

(* An offset pushed on an arena that needed padding, referring to a string *)
(* built before it: the word read back leads to the string.                *)
C17_Witness ==
    /\ last.op = "push_offset" /\ Ok(fbb)
    /\ last.size0 % SizeOfUOffset # 0
    /\ Len(made) = 1 /\ last.e = fbb.objs[1]
    /\ Str_as_ref(fbb.inner, fbb.next + read_scalar(fbb.inner, fbb.next, SizeOfUOffset))
          = <<104, 105>>

(* The address of element i (from 0) of the vector at vec.                 *)
ElementAddr(vec, i) == vec + SizeOfUOffset + SizeOfUOffset * i

(* C18: reader dereference of reference vectors.  For a vector of offsets  *)
(* at addr, Vector::get(i) for i below the length returns the object at    *)
(* (addr + 4 + 4 * i) plus the UOffset stored there: every element is      *)
(* dereferenced relative to its own address, not only element 0.           *)
C18_ReferenceVectorDeref ==
    (last.op = "create_vector_of_sorted_tables" /\ Ok(fbb)) =>
        LET mem == fbb.inner
            vec == data_at(fbb, last.ret)
        IN  \A i \in 0..(Vector_len(mem, vec) - 1) :
               Vector_get_ref(mem, vec, i)
                  = ElementAddr(vec, i) + read_scalar(mem, ElementAddr(vec, i), SizeOfUOffset)

(* The builder inside end_table when the de-duping code starts: the new    *)
(* vtable is at the front of the live region.                              *)
Emitted == emit_vtable(fbb, fbb.start_ret, last'.n)

(* The vt_size bytes of the vtable at address a.                           *)
VtBytes(mem, a) == PeekN(mem, a, read_scalar(mem, a, SizeOfVOffset))

(* C19: dedup comparison scope.  In end_table the comparison between the   *)
(* vtable just emitted and each pooled vtable covers exactly the vt_size   *)
(* bytes of each vtable and no byte of the table bodies that follow them:  *)
(* it reports equality exactly when those bytes are equal.                 *)
C19_Step ==
    (last'.op = "end_table" /\ Ok(fbb) /\ Ok(Emitted)) =>
        \A i \in 1..Len(Emitted.vtables) :
           LET mem == Emitted.inner
               a1  == Emitted.next
               a2  == data_at(Emitted, Emitted.vtables[i])
           IN  /\ slice_bytes(mem, a1) = read_scalar(mem, a1, SizeOfVOffset)
               /\ slice_bytes(mem, a2) = read_scalar(mem, a2, SizeOfVOffset)
               /\ (slices_cmp(mem, a1, a2) = "eq")
                     <=> (VtBytes(mem, a1) = VtBytes(mem, a2))

C19_DedupComparisonScope == [][C19_Step]_vars

(* Two pending fields carry the same field id.                             *)
DuplicateField ==
    \E i, j \in 1..Len(Pending) : i < j /\ Pending[i].id = Pending[j].id

(* C20: duplicate field detection.  If the pending fields of one table     *)
(* contain the same field id twice, end_table aborts instead of            *)
(* overwriting the earlier slot value.                                     *)
C20_Step ==
    (last'.op = "end_table" /\ Ok(fbb) /\ DuplicateField) => ~Ok(fbb')

C20_DuplicateFieldDetection == [][C20_Step]_vars

(* The address of the first element of the slice that                      *)
(* create_uninitialized_vector is returning in this step.                  *)
ReturnedSlice == uninitialized_slice(fbb, last'.e, last'.w)

(* C21: create_uninitialized_vector(len) returns (p, slice) where p is the *)
(* position-from-end of the vector's length word and slice covers exactly  *)
(* the len element slots that immediately follow that length word, so that *)
(* elements written through the slice are the ones read back from the      *)
(* vector at p.                                                            *)
C21_Step ==
    (last'.op = "create_uninitialized_vector" /\ Ok(fbb) /\ fbb.offset_buf = <<>>
        /\ last'.e > 0) =>
        /\ Ok(fbb')
        /\ last'.ret = get_size(fbb')
        /\ Vector_len(fbb'.inner, data_at(fbb', last'.ret)) = last'.e
        /\ ReturnedSlice = Vector_data(data_at(fbb', last'.ret))

C21_UninitializedVectorSlice == [][C21_Step]_vars

(* C22: arena bounds.  After any sequence of public builder operations     *)
(* the watermark satisfies 0 <= next <= inner.len(), so that get_size() =  *)
(* inner.len() - next is well defined and pop_bytes never removes more     *)
(* bytes than are live.                                                    *)
C22_ArenaBounds ==
    Ok(fbb) =>
        /\ 0 <= fbb.next /\ fbb.next <= Len(fbb.inner)
        /\ get_size(fbb) >= 0
        /\ (last.op = "pop_bytes") => last.n <= last.size0


=============================================================================
